---------------------------- MODULE Spec2Model ----------------------------
(***************************************************************************)
(* Model of src/src/extractDependencies.ts: the retrying request client     *)
(* (requestWithRetry), the two resolvers (getComponentMetadata,             *)
(* getDependencies), the recursive traversal (findAllDependenciesRecursive  *)
(* and its _recursiveHelper) and the main execution block.                  *)
(*                                                                          *)
(* The program runs on the JavaScript event loop.  A step of the model is   *)
(* one macrotask: the arrival of an HTTP response, the firing of a backoff  *)
(* timer, or the completion of the file write.  Everything the program does *)
(* between two suspensions on such an event (promise continuations,         *)
(* Promise.all settling, rejection propagation) runs to completion inside   *)
(* that step, as it does in the microtask queue.                            *)
(***************************************************************************)
EXTENDS Integers, Sequences, FiniteSets, TLC

(***************************************************************************)
(* Bounds of the model.                                                     *)
(***************************************************************************)
MaxIds == 3        \* component identifiers known to the remote service
MaxEdges == 3      \* references held by the remote service, over all components
MaxFaults == 1     \* requests of one run the remote service makes fail

(***************************************************************************)
(* Program constants.                                                       *)
(***************************************************************************)
MAX_RETRIES == 5
INITIAL_DELAY_MS == 1000
ROOT_COMPONENT_ID == 1

Ids == 1..MaxIds

(***************************************************************************)
(* Outcomes of one invocation of requestFn.  200 is a response; any other   *)
(* positive number is an axios error carrying a response with that status;  *)
(* NoResponse is an axios error without a response (network failure).       *)
(***************************************************************************)
NoResponse == 0
ErrorStatuses == {400, 404, 500, 503, 504}
Outcomes == {200} \cup ErrorStatuses \cup {NoResponse}

\* Math.random() * 1000, sampled
Jitters == {0, 500, 999}

(***************************************************************************)
(* Errors.  An axios error has name "AxiosError" and the status of its      *)
(* response (NoResponse when it has none); ApiError is the class of lines   *)
(* 54-65.                                                                   *)
(***************************************************************************)
NoError == [name |-> "none", status |-> 0, attempts |-> 0]
AxiosError(status) == [name |-> "AxiosError", status |-> status, attempts |-> 0]
ApiError(status, attempts) == [name |-> "ApiError", status |-> status, attempts |-> attempts]
isAxiosError(error) == error.name = "AxiosError"

\* variant: every 5xx status is retried
IsRetryableAny5xx(status) == status >= 500

\* line 86
IsRetryable(status) == status = 503 \/ status = 504

\* variants: the last attempt is recognised one attempt early, or never
IsLastAttemptEarly(attempt) == attempt = MAX_RETRIES - 1
IsLastAttemptNever(attempt) == FALSE

\* line 87
IsLastAttempt(attempt) == attempt = MAX_RETRIES

\* variant: the exponent is the attempt number
delayMsFromAttempt(attempt, jitter) == INITIAL_DELAY_MS * (2 ^ attempt) + jitter

\* line 91
delayMs(attempt, jitter) == INITIAL_DELAY_MS * (2 ^ (attempt - 1)) + jitter

(***************************************************************************)
(* requestWithRetry, one iteration of its loop: what the function does when *)
(* the requestFn invoked at `attempt` settles with `outcome`.               *)
(*   act = "return": line 81 returns the response                           *)
(*   act = "delay" : lines 91-94, wait and go round the loop                *)
(*   act = "throw" : line 88 (ApiError) or line 97 (the error itself)       *)
(***************************************************************************)
requestWithRetry(attempt, outcome) ==
    IF outcome = 200
    THEN [act |-> "return", error |-> NoError]
    ELSE IF outcome # NoResponse /\ IsRetryable(outcome)
    THEN IF IsLastAttempt(attempt)
         THEN [act |-> "throw", error |-> ApiError(outcome, attempt)]
         ELSE [act |-> "delay", error |-> NoError]
    ELSE [act |-> "throw", error |-> AxiosError(outcome)]

\* The whole call (lines 78-102) against a requestFn that settles with
\* script[1], script[2], ... on its successive invocations: the loop of line 79
\* from `attempt` on.  `attempts` counts the invocations of requestFn.  When
\* the script ends before the call does, the call stays pending.
RECURSIVE RunRetry(_, _)
RunRetry(attempt, script) ==
    IF attempt > MAX_RETRIES
    THEN [act |-> "throw", error |-> ApiError(NoResponse, MAX_RETRIES), attempts |-> MAX_RETRIES]
    ELSE IF script = <<>>
    THEN [act |-> "pending", error |-> NoError, attempts |-> attempt]
    ELSE LET r == requestWithRetry(attempt, Head(script))
         IN  IF r.act = "delay"
             THEN RunRetry(attempt + 1, Tail(script))
             ELSE [act |-> r.act, error |-> r.error, attempts |-> attempt]

\* variant: only 404 is taken as not-found
MetadataNotFound404Only(error) == isAxiosError(error) /\ error.status = 404

\* getComponentMetadata, its catch block (lines 117-124): TRUE when the error
\* is turned into null, FALSE when it is thrown again
MetadataNotFound(error) ==
    isAxiosError(error) /\ (error.status = 400 \/ error.status = 404)

\* variant: the catch of getDependencies handles axios errors only
DependenciesCaughtAxiosOnly(error) == isAxiosError(error)

\* getDependencies, its catch block (lines 149-152): it catches every error
\* and returns []
DependenciesCaught(error) == TRUE


(***************************************************************************)
(* The remote service.  `exists` says which identifiers have metadata and   *)
(* `refsOf` is the reference list the service holds for each component.     *)
(* Both are fixed for one run.  Identifiers no run can visit carry no data  *)
(* (the program cannot observe it).                                         *)
(***************************************************************************)
VARIABLES exists, refsOf, faults

RECURSIVE SeqsOfLen(_)
SeqsOfLen(n) ==
    IF n = 0 THEN {<<>>}
    ELSE {Append(s, i) : s \in SeqsOfLen(n - 1), i \in Ids}

SeqsUpTo(n) == UNION {SeqsOfLen(k) : k \in 0..n}

\* the reference tables over the identifiers 1..i holding at most `budget` references
RECURSIVE RefTables(_, _)
RefTables(i, budget) ==
    IF i = 0 THEN {<<>>}
    ELSE UNION {{Append(g, s) : g \in RefTables(i - 1, budget - k), s \in SeqsOfLen(k)} :
                k \in 0..budget}

Range(s) == {s[i] : i \in 1..Len(s)}

\* the identifiers a run from ROOT_COMPONENT_ID can ask the service about
RECURSIVE Visitable(_, _, _)
Visitable(ex, refs, seen) ==
    LET more == seen \cup UNION {Range(refs[p]) : p \in {q \in seen : ex[q]}}
    IN  IF more = seen THEN seen ELSE Visitable(ex, refs, more)

Observable(ex, refs) ==
    /\ \A id \in Ids \ Visitable(ex, refs, {ROOT_COMPONENT_ID}) : ~ex[id]
    /\ \A id \in Ids : ~ex[id] => refs[id] = <<>>

\* Identifiers are opaque strings (the program only compares them), so a run
\* is the same under any renaming of the identifiers other than the root.
\* One table of each such class is kept: the one whose identifiers are
\* numbered in the order in which the table first mentions them.
RECURSIVE Concat(_, _)
Concat(refs, i) == IF i = 0 THEN <<>> ELSE Concat(refs, i - 1) \o refs[i]
FirstMention(list, id) ==
    IF id \in Range(list)
    THEN CHOOSE i \in 1..Len(list) : list[i] = id /\ \A j \in 1..(i - 1) : list[j] # id
    ELSE Len(list) + 1
NumberedByMention(refs) ==
    LET list == Concat(refs, MaxIds)
    IN  \A id \in Ids \ {ROOT_COMPONENT_ID, MaxIds} :
           FirstMention(list, id) <= FirstMention(list, id + 1)

(***************************************************************************)
(* Response bodies of the reference query (line 143): an optional `result`, *)
(* a list of groups each with an optional `references` list.                *)
(***************************************************************************)
Group(list) == [hasReferences |-> TRUE, references |-> list]
NoReferences == [hasReferences |-> FALSE, references |-> <<>>]
Body(groups) == [hasResult |-> TRUE, result |-> groups]
NoResult == [hasResult |-> FALSE, result |-> <<>>]

\* the bodies with which the service can answer that a component refers to `list`
ResponseBodies(list) ==
    {Body(<<Group(list)>>)}
    \cup {Body(<<Group(SubSeq(list, 1, k)), Group(SubSeq(list, k + 1, Len(list)))>>) :
            k \in 1..(Len(list) - 1)}
    \cup {Body(<<Group(list), NoReferences>>)}
    \cup (IF list = <<>> THEN {NoResult, Body(<<>>), Body(<<NoReferences>>)} ELSE {})

\* line 147: result?.flatMap(r => r.references?.map(ref => ref.componentId) || []) || []
RECURSIVE FlatMapReferences(_)
FlatMapReferences(groups) ==
    IF groups = <<>> THEN <<>>
    ELSE (IF Head(groups).hasReferences THEN Head(groups).references ELSE <<>>)
         \o FlatMapReferences(Tail(groups))

\* variant: only the first group of the result is read
FlattenResponseFirstGroup(data) ==
    IF data.hasResult /\ data.result # <<>> /\ Head(data.result).hasReferences
    THEN Head(data.result).references
    ELSE <<>>

FlattenResponse(data) ==
    IF data.hasResult THEN FlatMapReferences(data.result) ELSE <<>>

(***************************************************************************)
(* What the service answers to the successive attempts of one request: a    *)
(* script is as long as the number of attempts made.  Every attempt but the *)
(* last is answered 503 or 504 (only then is there a next attempt); the     *)
(* last is the service's answer or an injected failure.  The status of a    *)
(* failure that is retried is only logged (line 92), so the scripts carry   *)
(* one status for all of them.                                              *)
(***************************************************************************)
Repeat(x, n) == [i \in 1..n |-> x]
Scripts(answers) ==
    {Repeat(x[1], x[2]) \o <<x[3]>> :
        x \in {y \in {503, 504} \X (0..(MAX_RETRIES - 1))
                     \X (answers \cup {500, 503, 504, NoResponse}) :
                 IsRetryable(y[3]) => y[2] = MAX_RETRIES - 1}}

\* the service's answers to a metadata request and to a reference query
AnswerSets == {{200}, {400, 404}}

\* the results a requestWithRetry call can have, by the service's answers
ResultsFor ==
    [answers \in AnswerSets |->
        {[act |-> r.act, error |-> r.error] :
            r \in {x \in {RunRetry(1, s) : s \in Scripts(answers)} : x.act # "pending"}}]

\* the results of a requestWithRetry call the service can cause now; the
\* service makes at most MaxFaults requests of a run fail
Failed(result, answers) ==
    result.act = "throw" /\ result.error.status \notin answers
RetryResults(answers) ==
    {r \in ResultsFor[answers] : Failed(r, answers) => faults < MaxFaults}
MetadataAnswers(id) == IF exists[id] THEN {200} ELSE {400, 404}
ReferenceAnswers(id) == {200}

(***************************************************************************)
(* The traversal (lines 156-187) and the main block (lines 193-207).        *)
(*   nodesMap   the keys of the Map of line 157, in insertion order         *)
(*   edges      the array of line 158                                       *)
(*   visits     the invocations of _recursiveHelper, in the order they were *)
(*              made; visits[1] is the one of line 184                      *)
(*   mainPc     where the main block is                                     *)
(*   caught     the error the catch of line 204 received                    *)
(*   outputFile the content of OUTPUT_FILE                                  *)
(***************************************************************************)
VARIABLES nodesMap, edges, visits, mainPc, caught, outputFile

\* one requestWithRetry call made on its own (lines 78-102)
VARIABLE call

vars == <<exists, refsOf, faults, nodesMap, edges, visits, mainPc, caught, outputFile, call>>

Edge(source, target) == [source |-> source, target |-> target]

\* Map.has and Map.set on the keys
has(map, key) == key \in Range(map)
\* variant: the key is not stored
MapSetNever(map, key) == map
\* variant: set pushes without looking for the key
MapSetAppend(map, key) == Append(map, key)
MapSet(map, key) == IF has(map, key) THEN map ELSE Append(map, key)

(***************************************************************************)
(* An invocation of _recursiveHelper.  pc says where it is suspended:       *)
(*   "skip"      returned at line 161                                       *)
(*   "meta"      line 163, inside getComponentMetadata                      *)
(*   "pruned"    returned at line 164                                       *)
(*   "deps"      line 170, inside getDependencies                           *)
(*   "join"      line 181, `pending` children have not resolved             *)
(*   "done"      returned after line 181                                    *)
(*   "rejected"  threw                                                      *)
(* queried: getDependencies was called; refsFailed: it took its catch;      *)
(* depIds: the dependencyIds of line 170.                                   *)
(***************************************************************************)
Visit(id, parent, pc) ==
    [id |-> id, parent |-> parent, pc |-> pc, pending |-> 0,
     queried |-> FALSE, refsFailed |-> FALSE, depIds |-> <<>>]

Resolved(visit) == visit.pc \in {"skip", "pruned", "done"}
Settled(visit) == Resolved(visit) \/ visit.pc = "rejected"

\* variant: without the check of line 161
recursiveHelperNoCheck(map, componentId, parent) == Visit(componentId, parent, "meta")

\* lines 160-163: a call of _recursiveHelper runs up to its first suspension
recursiveHelper(map, componentId, parent) ==
    IF has(map, componentId)
    THEN Visit(componentId, parent, "skip")
    ELSE Visit(componentId, parent, "meta")

\* variant: without the edges.push of line 175
RECURSIVE MapDependenciesNoPush(_, _, _, _, _)
MapDependenciesNoPush(vs, es, map, parent, depIds) ==
    IF depIds = <<>> THEN [visits |-> vs, edges |-> es]
    ELSE MapDependenciesNoPush(Append(vs, recursiveHelper(map, Head(depIds), parent)),
                               es, map, parent, Tail(depIds))

\* variant: the edge is put at the front of the array
RECURSIVE MapDependenciesUnshift(_, _, _, _, _)
MapDependenciesUnshift(vs, es, map, parent, depIds) ==
    IF depIds = <<>> THEN [visits |-> vs, edges |-> es]
    ELSE MapDependenciesUnshift(Append(vs, recursiveHelper(map, Head(depIds), parent)),
                                <<Edge(vs[parent].id, Head(depIds))>> \o es,
                                map, parent, Tail(depIds))

\* lines 173-179: the callback of dependencyIds.map, applied to each id in order
RECURSIVE MapDependencies(_, _, _, _, _)
MapDependencies(vs, es, map, parent, depIds) ==
    IF depIds = <<>> THEN [visits |-> vs, edges |-> es]
    ELSE MapDependencies(Append(vs, recursiveHelper(map, Head(depIds), parent)),
                         Append(es, Edge(vs[parent].id, Head(depIds))),
                         map, parent, Tail(depIds))

\* variant: a resolved child is not reported to its parent
ResolveNever(vs, v) == vs

\* variant: the parent waits for the first child only
RECURSIVE ResolveAny(_, _)
ResolveAny(vs, v) ==
    IF vs[v].parent = 0 THEN vs
    ELSE LET p == vs[v].parent
         IN  IF vs[p].pc = "join"
             THEN ResolveAny([vs EXCEPT ![p].pc = "done", ![p].pending = 0], p)
             ELSE vs

\* the promise of visit v has resolved: its parent's Promise.all (line 181)
\* resolves once every child has, and so on upwards
RECURSIVE Resolve(_, _)
Resolve(vs, v) ==
    IF vs[v].parent = 0 THEN vs
    ELSE LET p == vs[v].parent
             vs1 == [vs EXCEPT ![p].pending = @ - 1]
         IN  IF vs1[p].pending = 0
             THEN Resolve([vs1 EXCEPT ![p].pc = "done"], p)
             ELSE vs1

\* visit v throws: the Promise.all of its parent rejects at once, so the
\* parent throws too, up to line 184
RECURSIVE Reject(_, _)
Reject(vs, v) ==
    LET vs1 == [vs EXCEPT ![v].pc = "rejected"]
    IN  IF vs[v].parent = 0 THEN vs1 ELSE Reject(vs1, vs[v].parent)

\* variant: the main block goes on to write whenever line 184 settles
MainAfterWriteAlways(vs) == IF Settled(vs[1]) THEN "write" ELSE "discover"

\* lines 184-198 and 204-206: what the main block does once line 184 settles
MainAfter(vs) ==
    IF vs[1].pc = "rejected" THEN "failed"
    ELSE IF Resolved(vs[1]) THEN "write"
    ELSE "discover"

PriorOutput == [writes |-> 0, nodes |-> <<>>, edges |-> <<>>]

\* line 15 onwards, before any response: findAllDependenciesRecursive has
\* called _recursiveHelper(rootId), whose metadata request is in flight
TraversalInit ==
    /\ nodesMap = <<>>
    /\ edges = <<>>
    /\ visits = <<recursiveHelper(<<>>, ROOT_COMPONENT_ID, 0)>>
    /\ mainPc = "discover"
    /\ caught = NoError
    /\ outputFile = PriorOutput

IdleCall ==
    [pc |-> "idle", attempt |-> 0, invocations |-> 0, outcomes |-> <<>>,
     waits |-> <<>>, error |-> NoError]

Init ==
    /\ refsOf \in RefTables(MaxIds, MaxEdges)
    /\ exists \in [Ids -> BOOLEAN]
    /\ NumberedByMention(refsOf)
    /\ Observable(exists, refsOf)
    /\ faults = 0
    /\ TraversalInit
    /\ call = IdleCall

\* getComponentMetadata of visit v settles (lines 106-125), and the visit
\* goes on to its next suspension (lines 164-170)
MetadataSettles(v, r) ==
    /\ mainPc = "discover"
    /\ visits[v].pc = "meta"
    /\ r \in RetryResults(MetadataAnswers(visits[v].id))
    /\ faults' = IF Failed(r, MetadataAnswers(visits[v].id)) THEN faults + 1 ELSE faults
    /\ CASE r.act = "return" ->
              /\ nodesMap' = MapSet(nodesMap, visits[v].id)
              /\ visits' = [visits EXCEPT ![v].pc = "deps", ![v].queried = TRUE]
              /\ UNCHANGED <<mainPc, caught>>
         [] r.act = "throw" /\ MetadataNotFound(r.error) ->
              /\ visits' = Resolve([visits EXCEPT ![v].pc = "pruned"], v)
              /\ mainPc' = MainAfter(visits')
              /\ UNCHANGED <<nodesMap, caught>>
         [] r.act = "throw" /\ ~MetadataNotFound(r.error) ->
              /\ visits' = Reject(visits, v)
              /\ mainPc' = MainAfter(visits')
              /\ caught' = r.error
              /\ UNCHANGED nodesMap
    /\ UNCHANGED <<exists, refsOf, edges, outputFile, call>>

\* getDependencies of visit v settles (lines 141-152), and the visit goes on
\* to its next suspension or its end (lines 173-182)
DependenciesSettle(v, r, data) ==
    /\ mainPc = "discover"
    /\ visits[v].pc = "deps"
    /\ r \in RetryResults(ReferenceAnswers(visits[v].id))
    /\ data \in (IF r.act = "return" THEN ResponseBodies(refsOf[visits[v].id]) ELSE {NoResult})
    /\ faults' = IF Failed(r, ReferenceAnswers(visits[v].id)) THEN faults + 1 ELSE faults
    /\ IF r.act = "throw" /\ ~DependenciesCaught(r.error)
       THEN /\ visits' = Reject(visits, v)
            /\ mainPc' = MainAfter(visits')
            /\ caught' = r.error
            /\ UNCHANGED edges
       ELSE LET dependencyIds == IF r.act = "return" THEN FlattenResponse(data) ELSE <<>>
                m == MapDependencies(
                       [visits EXCEPT ![v].depIds = dependencyIds,
                                      ![v].refsFailed = (r.act = "throw")],
                       edges, nodesMap, v, dependencyIds)
                pending == Cardinality({c \in (Len(visits) + 1)..Len(m.visits) :
                                          ~Resolved(m.visits[c])})
            IN  /\ edges' = m.edges
                /\ visits' = IF pending = 0
                             THEN Resolve([m.visits EXCEPT ![v].pc = "done"], v)
                             ELSE [m.visits EXCEPT ![v].pc = "join", ![v].pending = pending]
                /\ mainPc' = MainAfter(visits')
                /\ UNCHANGED caught
    /\ UNCHANGED <<exists, refsOf, nodesMap, outputFile, call>>

\* lines 195-206: fs.writeFile settles
WriteFileDone(ok) ==
    /\ mainPc = "write"
    /\ IF ok
       THEN /\ outputFile' = [writes |-> outputFile.writes + 1, nodes |-> nodesMap, edges |-> edges]
            /\ mainPc' = "done"
            /\ UNCHANGED caught
       ELSE /\ mainPc' = "failed"
            /\ caught' = [name |-> "Error", status |-> 0, attempts |-> 0]
            /\ UNCHANGED outputFile
    /\ UNCHANGED <<exists, refsOf, faults, nodesMap, edges, visits, call>>

Next ==
    \/ \E v \in 1..Len(visits) :
         \E r \in RetryResults(MetadataAnswers(visits[v].id)) : MetadataSettles(v, r)
    \/ \E v \in 1..Len(visits) :
         \E r \in RetryResults(ReferenceAnswers(visits[v].id)) :
            \E data \in ResponseBodies(refsOf[visits[v].id]) \cup {NoResult} :
               DependenciesSettle(v, r, data)
    \/ \E ok \in BOOLEAN : WriteFileDone(ok)

Spec == Init /\ [][Next]_vars

\* every remote call and the file write eventually settle
FairSpec == Spec /\ WF_vars(Next)

(***************************************************************************)
(* requestWithRetry on its own (lines 78-102), one step per suspension:     *)
(* `call` is one call of it with a requestFn whose invocations settle as    *)
(* the environment chooses.                                                 *)
(*   pc          "request": awaiting requestFn (line 81); "delay": awaiting *)
(*               delay (line 93); "returned"; "threw"                       *)
(*   attempt     the loop variable of line 79                               *)
(*   invocations how many times requestFn was called                        *)
(*   outcomes    how those invocations settled, in order                    *)
(*   waits       the delays of line 93 that were started, in ms             *)
(*   error       what the call threw                                        *)
(***************************************************************************)
RetryInit ==
    /\ call = [pc |-> "request", attempt |-> 1, invocations |-> 1, outcomes |-> <<>>,
               waits |-> <<>>, error |-> NoError]
    /\ refsOf = [id \in Ids |-> <<>>]
    /\ exists = [id \in Ids |-> FALSE]
    /\ faults = 0
    /\ TraversalInit

\* the invocation of requestFn of line 81 settles with `outcome`
RequestSettles(outcome, jitter) ==
    /\ call.pc = "request"
    /\ LET r == requestWithRetry(call.attempt, outcome)
       IN  call' = [call EXCEPT
                      !.outcomes = Append(@, outcome),
                      !.pc = CASE r.act = "return" -> "returned"
                               [] r.act = "delay" -> "delay"
                               [] r.act = "throw" -> "threw",
                      !.waits = IF r.act = "delay"
                                THEN Append(@, delayMs(call.attempt, jitter)) ELSE @,
                      !.error = r.error]
    /\ UNCHANGED <<exists, refsOf, faults, nodesMap, edges, visits, mainPc, caught, outputFile>>

\* the delay of line 93 ends: `continue`, attempt++, and either the loop body
\* runs again or the loop ends and line 101 throws
DelayElapsed ==
    /\ call.pc = "delay"
    /\ call' = IF call.attempt + 1 <= MAX_RETRIES
               THEN [call EXCEPT !.pc = "request", !.attempt = @ + 1, !.invocations = @ + 1]
               ELSE [call EXCEPT !.pc = "threw", !.attempt = @ + 1,
                                 !.error = ApiError(NoResponse, MAX_RETRIES)]
    /\ UNCHANGED <<exists, refsOf, faults, nodesMap, edges, visits, mainPc, caught, outputFile>>

RetryNext ==
    \/ \E outcome \in Outcomes, jitter \in Jitters : RequestSettles(outcome, jitter)
    \/ DelayElapsed

RetrySpec == RetryInit /\ [][RetryNext]_vars


(***************************************************************************)
(* Vocabulary of the properties.                                            *)
(***************************************************************************)
VisitsOf(id) == {v \in 1..Len(visits) : visits[v].id = id}

\* calls of getComponentMetadata and of getDependencies made for id
MetadataLookups(id) == Cardinality({v \in VisitsOf(id) : visits[v].pc # "skip"})
ReferenceLookups(id) == Cardinality({v \in VisitsOf(id) : visits[v].queried})

\* findAllDependenciesRecursive has returned its graph (line 186)
Returned == Resolved(visits[1])

\* the metadata lookup of the root threw
RootMetadataFailed == visits[1].pc = "rejected" /\ ~visits[1].queried

\* some lookup of the run failed other than by not-found
LookupFailed ==
    \/ visits[1].pc = "rejected"
    \/ \E v \in 1..Len(visits) : visits[v].refsFailed

\* the targets of the edges of `es` whose source is `source`, in order
RECURSIVE TargetsFrom(_, _)
TargetsFrom(es, source) ==
    IF es = <<>> THEN <<>>
    ELSE (IF Head(es).source = source THEN <<Head(es).target>> ELSE <<>>)
         \o TargetsFrom(Tail(es), source)

IsPrefix(s, t) == Len(s) <= Len(t) /\ s = SubSeq(t, 1, Len(s))

\* a transient failure, as the specification defines it
Transient(outcome) == outcome \in {503, 504}
AllTransient(outcomes) == \A i \in 1..Len(outcomes) : Transient(outcomes[i])
Front(s) == SubSeq(s, 1, Len(s) - 1)
Last(s) == s[Len(s)]

(***************************************************************************)
(* C1: for every identifier the engine issues at most one metadata lookup   *)
(* and at most one reference lookup during a run, whatever the order in     *)
(* which the remote calls complete.  Violated: the check of line 161 and    *)
(* the insertion of line 167 are separated by the await of line 163.        *)
(***************************************************************************)
C1_AtMostOneLookup ==
    \A id \in Ids : MetadataLookups(id) <= 1 /\ ReferenceLookups(id) <= 1

(***************************************************************************)
(* C2: a failure while resolving a non-root node never aborts the run: the  *)
(* run fails only through the root's own metadata lookup or the file write. *)
(* Violated: a metadata failure other than not-found rejects every          *)
(* Promise.all above it (lines 123, 163, 181).                              *)
(***************************************************************************)
C2_OnlyRootFailureIsFatal ==
    mainPc = "failed" => (RootMetadataFailed \/ caught.name = "Error")

(***************************************************************************)
(* C3: when the root cannot be resolved (not-found or any other failure of  *)
(* its metadata lookup) the run fails.  Violated: a not-found root makes    *)
(* line 164 return, and the main block writes an empty graph.               *)
(***************************************************************************)
C3_UnresolvedRootIsFatal ==
    (visits[1].pc = "pruned" \/ RootMetadataFailed) => mainPc = "failed"

(***************************************************************************)
(* C4: in every state the node set holds at most one node per identifier,   *)
(* and so does the written document.                                        *)
(***************************************************************************)
NoDuplicates(s) == \A i, j \in 1..Len(s) : s[i] = s[j] => i = j

C4_OneNodePerId == NoDuplicates(nodesMap) /\ NoDuplicates(outputFile.nodes)

\* an identifier reached from two parents whose two visits both ran line 167
C4_Witness ==
    \E v, w \in 1..Len(visits) :
        /\ v # w /\ visits[v].id = visits[w].id
        /\ visits[v].parent # visits[w].parent
        /\ visits[v].queried /\ visits[w].queried

(***************************************************************************)
(* C5: in the returned graph the edges with source P are exactly P's        *)
(* resolved reference list, each entry once and in list order.  Violated    *)
(* through C1: two visits of P both run lines 173-179.                      *)
(***************************************************************************)
C5_EdgesAreReferenceList ==
    Returned =>
        \A P \in Range(nodesMap) :
            \E v \in VisitsOf(P) :
                visits[v].queried /\ TargetsFrom(edges, P) = visits[v].depIds

(***************************************************************************)
(* C6: on the cycle A -> B -> A (A the root 1, B = 2, both resolvable) the  *)
(* run never records an edge beyond A->B, B->A, and when every remote call  *)
(* answers it returns, with nodes A, B and edges A->B, B->A unless a lookup *)
(* failed.                                                                  *)
(***************************************************************************)
CycleAB ==
    /\ exists[1] /\ exists[2]
    /\ refsOf[1] = <<2>> /\ refsOf[2] = <<1>>
CycleEdges == <<Edge(1, 2), Edge(2, 1)>>

C6_CycleTerminates ==
    /\ [](CycleAB => IsPrefix(edges, CycleEdges))
    /\ [](CycleAB /\ Returned /\ ~LookupFailed =>
            nodesMap = <<1, 2>> /\ edges = CycleEdges)
    /\ <>(CycleAB => Returned \/ LookupFailed)

C6_Witness ==
    CycleAB /\ Returned /\ ~LookupFailed /\ nodesMap = <<1, 2>> /\ edges = CycleEdges

(***************************************************************************)
(* C7: when the metadata lookup of X returned not-found, X is not in the    *)
(* node set, no reference lookup was issued for X, and every visit whose    *)
(* reference list names X has recorded its edge to X.                       *)
(***************************************************************************)
C7_NotFoundPruned ==
    \A v \in 1..Len(visits) :
        visits[v].pc = "pruned" =>
            LET X == visits[v].id
            IN  /\ ~has(nodesMap, X)
                /\ ReferenceLookups(X) = 0
                /\ \A p \in 1..Len(visits) :
                      X \in Range(visits[p].depIds) => Edge(visits[p].id, X) \in Range(edges)

\* a not-found dependency with its dangling edge, in a returned graph
C7_Witness ==
    /\ Returned
    /\ \E v \in 2..Len(visits) :
          /\ visits[v].pc = "pruned"
          /\ Edge(visits[visits[v].parent].id, visits[v].id) \in Range(edges)

(***************************************************************************)
(* C8 (RetrySpec): while requestFn has failed only transiently, fewer than  *)
(* 5 times, the call goes on; when it then succeeds, after K < 5 transient  *)
(* failures, the call returns and requestFn was invoked exactly K + 1 times.*)
(***************************************************************************)
C8_SucceedsAfterTransients ==
    /\ (AllTransient(call.outcomes) /\ Len(call.outcomes) < MAX_RETRIES) =>
          call.pc \in {"request", "delay"}
    /\ \A K \in 0..(MAX_RETRIES - 1) :
          (/\ Len(call.outcomes) = K + 1
           /\ AllTransient(Front(call.outcomes))
           /\ Last(call.outcomes) = 200) =>
              call.pc = "returned" /\ call.invocations = K + 1

\* success on the last allowed attempt
C8_Witness ==
    /\ call.pc = "returned"
    /\ Len(call.outcomes) = MAX_RETRIES
    /\ call.invocations = MAX_RETRIES

(***************************************************************************)
(* C9 (RetrySpec): requestFn is never invoked a 6th time, and after 5       *)
(* transient failures the call has thrown an ApiError with the last status  *)
(* and attempts = 5, not before.                                            *)
(***************************************************************************)
C9_ExhaustsAfterFive ==
    /\ call.invocations <= MAX_RETRIES
    /\ (call.pc = "threw" /\ AllTransient(call.outcomes)) =>
          Len(call.outcomes) = MAX_RETRIES
    /\ (AllTransient(call.outcomes) /\ Len(call.outcomes) = MAX_RETRIES) =>
          /\ call.pc = "threw"
          /\ call.error = ApiError(Last(call.outcomes), MAX_RETRIES)
          /\ call.invocations = MAX_RETRIES

C9_Witness ==
    /\ call.pc = "threw"
    /\ call.error.name = "ApiError"
    /\ call.outcomes = <<503, 504, 503, 503, 504>>

(***************************************************************************)
(* C10 (RetrySpec): when an invocation of requestFn fails other than with   *)
(* 503/504, the call has thrown that same error, without another invocation *)
(* and without another delay: the delays are those between the invocations. *)
(***************************************************************************)
C10_OtherFailuresPropagate ==
    (call.outcomes # <<>> /\ Last(call.outcomes) # 200 /\ ~Transient(Last(call.outcomes))) =>
        /\ call.pc = "threw"
        /\ call.error = AxiosError(Last(call.outcomes))
        /\ call.invocations = Len(call.outcomes)
        /\ Len(call.waits) = Len(call.outcomes) - 1

\* not-found on the first attempt: one invocation, no delay
C10_Witness ==
    /\ call.outcomes = <<404>>
    /\ call.pc = "threw"
    /\ call.invocations = 1
    /\ call.waits = <<>>


(***************************************************************************)
(* C11: a visit whose reference query failed (network failure, status, or   *)
(* retry exhaustion) has got the empty sequence from getDependencies: it    *)
(* has returned normally, without children, its node is in the node set,    *)
(* and the edges leaving its identifier are those of the other visits of    *)
(* that identifier (none when there is no other).  The failure is not the   *)
(* error of a failed run.                                                   *)
(***************************************************************************)
ChildrenOf(p) == {c \in 1..Len(visits) : visits[c].parent = p}

RECURSIVE SumLen(_)
SumLen(S) ==
    IF S = {} THEN 0
    ELSE LET v == CHOOSE x \in S : TRUE
         IN  Len(visits[v].depIds) + SumLen(S \ {v})

WriteError == [name |-> "Error", status |-> 0, attempts |-> 0]
NotFoundError(error) == error \in {AxiosError(400), AxiosError(404)}
PropagatedErrors ==
    {AxiosError(NoResponse), AxiosError(500)}
        \cup {ApiError(status, MAX_RETRIES) : status \in {503, 504}}
MetadataFailures == {v \in 1..Len(visits) : visits[v].pc = "rejected" /\ ~visits[v].queried}
ReferenceFailures == {v \in 1..Len(visits) : visits[v].refsFailed}

C12_NotFoundIsNullElsePropagates ==
    /\ \A v \in 1..Len(visits) :
          /\ visits[v].pc = "pruned" => ~exists[visits[v].id]
          /\ (~exists[visits[v].id] /\ visits[v].pc # "meta") =>
                \/ visits[v].pc = "pruned"
                \/ v \in MetadataFailures /\ caught \in PropagatedErrors
    /\ ~NotFoundError(caught)
    /\ caught \notin {NoError, WriteError} <=> MetadataFailures # {}
    /\ MetadataFailures # {} => caught \in PropagatedErrors /\ mainPc = "failed"
    /\ Cardinality(MetadataFailures) <= 1
    /\ faults = Cardinality(ReferenceFailures) + Cardinality(MetadataFailures)

\* a metadata lookup ran out of retries below the root, after a not-found
\* answer pruned another visit without failing the run
C12_Witness ==
    /\ mainPc = "failed"
    /\ caught \in {ApiError(status, MAX_RETRIES) : status \in {503, 504}}
    /\ \E v, w \in 2..Len(visits) :
          visits[v].pc = "pruned" /\ w \in MetadataFailures

(***************************************************************************)
(* C13: in every reachable state the source of every recorded edge is in    *)
(* the node set; and in the graph of a run that returned, the target of an  *)
(* edge is missing from the node set only if the metadata lookup of that    *)
(* target answered not-found.                                               *)
(***************************************************************************)
C13_EdgeEndpoints ==
    /\ \A i \in 1..Len(edges) : has(nodesMap, edges[i].source)
    /\ Returned =>
          \A i \in 1..Len(edges) :
              ~has(nodesMap, edges[i].target) =>
                  /\ ~exists[edges[i].target]
                  /\ \E v \in VisitsOf(edges[i].target) : visits[v].pc = "pruned"
                  /\ \A v \in VisitsOf(edges[i].target) : visits[v].pc = "pruned"

\* a returned graph with a dangling edge and an edge between two nodes
C13_Witness ==
    /\ Returned
    /\ \E i, j \in 1..Len(edges) :
          /\ ~has(nodesMap, edges[i].target)
          /\ has(nodesMap, edges[j].target) /\ edges[j].target # edges[j].source

(***************************************************************************)
(* C14: findAllDependenciesRecursive returns its graph only when every      *)
(* visit of the run has settled: in a state where it has returned no visit  *)
(* is in flight, and from then on no step changes the node set, the edge    *)
(* list or the visits.                                                      *)
(***************************************************************************)
InFlight == {v \in 1..Len(visits) : ~Settled(visits[v])}

C14_ReturnsAfterAllSettled ==
    /\ [](Returned => InFlight = {})
    /\ [][Returned => (nodesMap' = nodesMap /\ edges' = edges /\ visits' = visits)]_vars

\* the graph was returned and written after visits three levels deep,
\* a skipped one among them
C14_Witness ==
    /\ mainPc = "done"
    /\ Len(nodesMap) >= 3
    /\ \E v, w \in 1..Len(visits) :
          /\ visits[v].parent # 0 /\ visits[w].parent = v
          /\ visits[w].pc = "skip"

(***************************************************************************)
(* C15: whatever the reference graph (cycles, self-edges, diamonds,         *)
(* repeated identifiers), when every remote call completes the root visit   *)
(* of findAllDependenciesRecursive eventually settles, under every          *)
(* interleaving; and no visit recurses through its own identifier: a visit  *)
(* that got past the check of line 161 has no ancestor with its identifier. *)
(***************************************************************************)
RECURSIVE Ancestors(_)
Ancestors(v) ==
    IF visits[v].parent = 0 THEN {}
    ELSE {visits[v].parent} \cup Ancestors(visits[v].parent)

C15_TraversalSettles ==
    /\ [](\A v \in 1..Len(visits) :
             visits[v].pc # "skip" =>
                 \A a \in Ancestors(v) : visits[a].id # visits[v].id)
    /\ <>Settled(visits[1])

\* a run has returned on a graph where a dependency refers to itself and
\* some reference list repeats an identifier
C15_Witness ==
    /\ Returned
    /\ \E id \in Range(nodesMap) \ {ROOT_COMPONENT_ID} : id \in Range(refsOf[id])
    /\ \E id \in Range(nodesMap) : ~NoDuplicates(refsOf[id])

(***************************************************************************)
(* C16: a visit has stored its identifier in the visited mapping before its *)
(* reference lookup is issued and before any child visit is spawned from    *)
(* it; a visit entered when its identifier is already stored returns at     *)
(* once (line 161) and never issues a lookup.                               *)
(***************************************************************************)
C16_InsertedBeforeLookup ==
    /\ [](\A v \in 1..Len(visits) :
             /\ visits[v].queried => has(nodesMap, visits[v].id)
             /\ visits[v].parent # 0 => has(nodesMap, visits[visits[v].parent].id)
             /\ visits[v].pc = "skip" => ~visits[v].queried /\ ChildrenOf(v) = {})
    /\ [][/\ \A c \in (Len(visits) + 1)..Len(visits') :
                has(nodesMap, visits'[c].id) => visits'[c].pc = "skip"
          /\ \A v \in 1..Len(visits) :
                visits[v].pc = "skip" => visits'[v] = visits[v]]_vars

\* a visit was skipped for an identifier whose earlier visit had issued its
\* reference lookup, while that earlier visit was still waiting for children
C16_Witness ==
    \E v, w \in 1..Len(visits) :
        /\ v < w /\ visits[v].id = visits[w].id
        /\ visits[v].queried /\ visits[v].pc = "join"
        /\ visits[w].pc = "skip"

(***************************************************************************)
(* C17 (RetrySpec): the wait after the n-th failed transient attempt,       *)
(* 1 <= n <= 4, is at least 1000 * 2^(n-1) ms and less than                 *)
(* 1000 * 2^(n-1) + 1000 ms; there is exactly one wait between consecutive  *)
(* attempts and none after the 5th, so a call that made A attempts has      *)
(* waited exactly A - 1 times.                                              *)
(***************************************************************************)
C17_BackoffWaits ==
    /\ Len(call.waits) <= 4
    /\ \A n \in 1..Len(call.waits) :
          /\ Transient(call.outcomes[n])
          /\ call.waits[n] >= 1000 * (2 ^ (n - 1))
          /\ call.waits[n] < 1000 * (2 ^ (n - 1)) + 1000
    /\ call.pc = "delay" => Len(call.waits) = call.invocations
    /\ call.pc # "delay" => Len(call.waits) = call.invocations - 1
    /\ call.pc \in {"returned", "threw"} =>
          /\ call.invocations = Len(call.outcomes)
          /\ \A n \in 1..(call.invocations - 1) : Transient(call.outcomes[n])

\* five attempts, four waits, the shortest possible first and the longest
\* possible last
C17_Witness ==
    /\ call.pc = "threw"
    /\ call.invocations = 5
    /\ Len(call.waits) = 4
    /\ call.waits[1] = 1000 /\ call.waits[4] = 8999

(***************************************************************************)
(* C18: the output document is written only after the discovery has         *)
(* returned, at most once, and with the whole graph of the run: the node    *)
(* set and edge list as they are when no visit is in flight.  When the      *)
(* discovery throws, the document is as it was before the run and the       *)
(* process has exited with a non-zero status.                               *)
(***************************************************************************)
C18_OutputWrittenOnSuccessOnly ==
    /\ outputFile.writes <= 1
    /\ outputFile # PriorOutput =>
          /\ outputFile.writes = 1
          /\ mainPc = "done"
          /\ Returned /\ InFlight = {}
          /\ outputFile.nodes = nodesMap
          /\ outputFile.edges = edges
    /\ mainPc = "done" => outputFile.writes = 1
    /\ visits[1].pc = "rejected" => outputFile = PriorOutput /\ mainPc = "failed"

\* the document holds a graph of three nodes
C18_Witness ==
    /\ outputFile.writes = 1
    /\ Len(outputFile.nodes) = 3
    /\ Len(outputFile.edges) >= 2

(***************************************************************************)
(* C19: the edges one visit records are one contiguous block of the edge    *)
(* list, in the order of the reference list the visit received; no edge of  *)
(* another visit lies inside the block.  Each edge is pushed together with  *)
(* the call of the child visit of its target, so the i-th edge of the list  *)
(* belongs to visit i + 1, and a step that adds edges adds the block of one *)
(* visit at the end of the list.                                            *)
(***************************************************************************)
EdgeBlock(source, depIds) == [i \in 1..Len(depIds) |-> Edge(source, depIds[i])]
FirstChild(p) == CHOOSE c \in ChildrenOf(p) : \A d \in ChildrenOf(p) : c <= d

LookupSucceeded(id) ==
    \E v \in VisitsOf(id) :
        visits[v].queried /\ visits[v].pc # "deps" /\ ~visits[v].refsFailed

RECURSIVE ReachableThrough(_, _)
ReachableThrough(seen, expandable) ==
    LET more == seen \cup {t \in Ids : exists[t] /\ \E p \in seen \cap expandable :
                                                       t \in Range(refsOf[p])}
    IN  IF more = seen THEN seen ELSE ReachableThrough(more, expandable)

RootIfResolvable == IF exists[ROOT_COMPONENT_ID] THEN {ROOT_COMPONENT_ID} ELSE {}

C20_NodeSetIsReachableSet ==
    Returned =>
        /\ Range(nodesMap)
              = ReachableThrough(RootIfResolvable, {id \in Ids : LookupSucceeded(id)})
        /\ faults = 0 => Range(nodesMap) = ReachableThrough(RootIfResolvable, Ids)
        /\ \A id \in Range(nodesMap) :
              \A v, w \in VisitsOf(id) :
                  (visits[v].queried /\ visits[w].queried
                      /\ ~visits[v].refsFailed /\ ~visits[w].refsFailed)
                          => Range(visits[v].depIds) = Range(visits[w].depIds)

\* a returned run in which a failed reference lookup cut a resolvable
\* identifier off the graph
C20_Witness ==
    /\ Returned
    /\ Len(nodesMap) = 2
    /\ \E id \in Ids : exists[id] /\ ~has(nodesMap, id)
    /\ \E v \in 2..Len(visits) : visits[v].refsFailed

=============================================================================
